---- MODULE Spec2Model ----
(***************************************************************************)
(* redislib: the connection pool (redislib/connection.py, class Pool), the *)
(* connection factory of Redis.from_addr and the pooled round trip of      *)
(* Redis._round_trip (redislib/api/redis.py), as a state machine.          *)
(*                                                                         *)
(* Tasks are trio tasks: one task runs at a time and another task can run  *)
(* only at a checkpoint (an await that suspends).  Every action below is   *)
(* the code one task executes between two checkpoints.  trio.Lock and      *)
(* trio.Condition are modelled as trio implements them: acquiring a free   *)
(* lock takes it at once and then yields, a contended acquire parks the    *)
(* task in a FIFO queue, release hands the lock to the head of the queue,  *)
(* Condition.wait releases the condition's lock and parks the task in the  *)
(* condition's lot, Condition.notify moves the head of the lot to the      *)
(* queue of the condition's lock.                                          *)
(***************************************************************************)
EXTENDS Integers, Sequences, FiniteSets, TLC

\* bounds of the model
NumTasks == 2
MaxNum == 1
MaxSockets == 2
MaxSent == 3
MaxReply == 2
MaxTxOps == 4
MaxFetches == 2
MaxBatch == 2
MaxArgs == 2

None == 0
Tasks == 1..NumTasks
Socks == 1..MaxSockets

VARIABLES
    pc,             \* pc[t]: where task t is suspended
    conn,           \* conn[t]: the connection task t last obtained from acquire (its local `conn`)
    got_open,       \* got_open[t]: the pool was not yet marked closed when acquire returned conn[t]
    res,            \* res[t]: <<operation, outcome>> of the call task t made last
    lock,           \* Pool._lock
    one_available,  \* Pool._one_available
    acquired_num,   \* Pool._acquired_num
    conns,          \* Pool._conns, the idle set
    closed,         \* Pool._closed
    exitstack,      \* Pool._exitstack._exit_callbacks
    opened,         \* the sockets trio.open_tcp_stream has opened
    closes,         \* closes[s]: how many times socket s has been closed
    close_exc       \* an exception is pending in Pool._exitstack.aclose()

VARIABLES
    cpc,            \* where the caller of one Connection is suspended
    said_hello,     \* Connection._said_hello
    round_trip,     \* what the attribute round_trip of the connection is bound to
    sent,           \* the commands sock.send_all has written, in order
    need,           \* the length of the reply the server sends to the last command
    fed,            \* how much of that reply Connection._protocol has been fed
    eof,            \* the peer has closed the stream
    cres,           \* <<operation, command, outcome>> of the call made last on the connection
    cargs,          \* the arguments of the call of round_trip made last
    stale           \* the reply the stream holds next answers an earlier command than the one sent last

VARIABLES
    tx_pc,          \* where the user of one open_transaction scope is
    tx_count,       \* Transaction._tx_count
    calls,          \* the calls made on the Transaction, in order
    tx_res,         \* <<call, outcome>> of the call made last on the Transaction
    tx_conn         \* Transaction._conn, when the Transaction was made by open_transaction

VARIABLES
    sc_pc,          \* where the consumer of one Scanner is suspended
    state,          \* Scanner._state
    cursor,         \* Scanner._cursor
    stash,          \* Scanner._stash
    asked,          \* <<the cursor passed to the call of Scanner._scan made last>>
    fetches,        \* how many times Scanner._scan has returned
    fetched,        \* every item of every batch Scanner._scan has returned
    yielded,        \* every item __anext__ has returned
    sc_res,         \* how the scanner call made last ended
    after_stop      \* __anext__ has been called on a scanner that had stopped

VARIABLES
    pz_pc,          \* where PairedZSCAN.__anext__ is
    score,          \* its local `score`
    pairs,          \* every pair PairedZSCAN.__anext__ has returned
    pz_res          \* how the call of PairedZSCAN.__anext__ made last ended

VARIABLES
    pk_done,        \* pack_cmd has been called
    pk_cmd,         \* the `cmd` of the call of pack_cmd made last
    pk_args,        \* its `args`
    pk_out          \* what it returned, or that it raised

poolAll == <<pc, conn, got_open, res, lock, one_available, acquired_num, conns, closed,
             exitstack, opened, closes, close_exc>>
connVars == <<cpc, said_hello, round_trip, sent, need, fed, eof, cres, cargs, stale>>
txVars == <<tx_pc, tx_count, calls, tx_res, tx_conn>>
scanVars == <<sc_pc, state, cursor, stash, asked, fetches, fetched, yielded, sc_res,
              after_stop>>

pzVars == <<pz_pc, score, pairs, pz_res>>
packVars == <<pk_done, pk_cmd, pk_args, pk_out>>

vars == <<poolAll, connVars, txVars, scanVars, pzVars, packVars>>

\* what the steps of the pool, of a connection, of a transaction and of a
\* scanner leave alone
notPool == <<connVars, txVars, scanVars, pzVars, packVars>>
notConn == <<poolAll, txVars, scanVars, pzVars, packVars>>
notTx == <<poolAll, connVars, scanVars, pzVars, packVars>>
notScan == <<poolAll, connVars, txVars, packVars>>
notPack == <<poolAll, connVars, txVars, scanVars, pzVars>>

handle == <<conn, got_open>>
poolVars == <<acquired_num, conns, closed, exitstack>>
sockVars == <<opened, closes, close_exc>>

-----------------------------------------------------------------------------
\* trio.Lock

LockAcquire(l, t) ==
    IF l.owner = None
    THEN [l EXCEPT !.owner = t]
    ELSE [l EXCEPT !.waiters = Append(@, t)]

LockRelease(l) ==
    IF l.waiters = <<>>
    THEN [l EXCEPT !.owner = None]
    ELSE [l EXCEPT !.owner = Head(l.waiters), !.waiters = Tail(@)]

\* trio.Condition: wait() releases the condition's lock and parks in the lot

CondWait(c, t) == [LockRelease(c) EXCEPT !.lot = Append(@, t)]

CondNotify(c) ==
    IF c.lot = <<>>
    THEN c
    ELSE [c EXCEPT !.waiters = Append(@, Head(c.lot)), !.lot = Tail(@)]

\* Connection(sock=sock): attrs defaults, round_trip is the method of the class
ConnInit ==
    /\ cpc = "idle"
    /\ said_hello = FALSE
    /\ round_trip = "round_trip"
    /\ sent = <<>>
    /\ need = 0
    /\ fed = 0
    /\ eof = FALSE
    /\ cres = <<"none", "none", "none">>
    /\ cargs = <<>>
    /\ stale = FALSE

\* Transaction(conn), before __enter__
TxInit ==
    /\ tx_pc = "out"
    /\ tx_count = 0
    /\ calls = <<>>
    /\ tx_res = <<"none", "none">>
    /\ tx_conn = None

\* Scanner(): attrs defaults
ScanInit ==
    /\ sc_pc = "idle"
    /\ state = "init"
    /\ cursor = 0
    /\ stash = <<>>
    /\ asked = <<>>
    /\ fetches = 0
    /\ fetched = <<>>
    /\ yielded = <<>>
    /\ sc_res = "none"
    /\ after_stop = FALSE

\* PairedZSCAN(redis, key), no __anext__ called yet
PzInit ==
    /\ pz_pc = "idle"
    /\ score = ""
    /\ pairs = <<>>
    /\ pz_res = "none"

\* no call of pack_cmd made yet
PackInit ==
    /\ pk_done = FALSE
    /\ pk_cmd = "PING"
    /\ pk_args = <<>>
    /\ pk_out = [ok |-> FALSE, bytes |-> <<>>]

-----------------------------------------------------------------------------
Init ==
    /\ pc = [t \in Tasks |-> "idle"]
    /\ conn = [t \in Tasks |-> None]
    /\ got_open = [t \in Tasks |-> FALSE]
    /\ res = [t \in Tasks |-> <<"none", "none">>]
    /\ lock = [owner |-> None, waiters |-> <<>>]
    /\ one_available = [owner |-> None, waiters |-> <<>>, lot |-> <<>>]
    /\ acquired_num = 0
    /\ conns = {}
    /\ closed = FALSE
    /\ exitstack = <<>>
    /\ opened = {}
    /\ closes = [s \in Socks |-> 0]
    /\ close_exc = FALSE
    /\ ConnInit
    /\ TxInit
    /\ ScanInit
    /\ PzInit
    /\ PackInit

\* the operation a failure inside Pool.acquire / Pool.release is reported for:
\* the pool method itself, or the Redis._round_trip that wraps it
Op(k, op) == IF k = "pool" THEN op ELSE "round_trip"

\* a connection may be created: `self._max_num > self._acquired_num`
HasRoom_OffByOne == MaxNum >= acquired_num

HasRoom == MaxNum > acquired_num

\* acquire returns connection c to task t
Got(t, k, c) ==
    /\ conn' = [conn EXCEPT ![t] = c]
    /\ got_open' = [got_open EXCEPT ![t] = ~closed]
    /\ pc' = [pc EXCEPT ![t] = IF k = "pool" THEN "holding" ELSE "rt_send"]
    /\ res' = [res EXCEPT ![t] = IF k = "pool" THEN <<"acquire", "conn">> ELSE @]

\* an idle connection is handed out but left in the idle set
TakeIdle_Peek(t, k) ==
    \E c \in conns :
        /\ conns' = conns
        /\ acquired_num' = acquired_num + 1
        /\ lock' = LockRelease(lock)
        /\ Got(t, k, c)

\* self._conns.pop(); self._acquired_num += 1; return conn
TakeIdle(t, k) ==
    \E c \in conns :
        /\ conns' = conns \ {c}
        /\ acquired_num' = acquired_num + 1
        /\ lock' = LockRelease(lock)
        /\ Got(t, k, c)

\* acquire without the check of self._closed
AcquireCall_NoCheck(t, k) ==
    /\ pc[t] = "idle"
    /\ lock' = LockAcquire(lock, t)
    /\ pc' = [pc EXCEPT ![t] = "acq_lock"]
    /\ res' = [res EXCEPT ![t] = <<Op(k, "acquire"), "pending">>]
    /\ UNCHANGED <<handle, one_available, poolVars, sockVars>>

\* Pool.acquire up to its first checkpoint
AcquireCall(t, k) ==
    /\ pc[t] = "idle"
    /\ IF closed
       THEN /\ res' = [res EXCEPT ![t] = <<Op(k, "acquire"), "ClosedPoolError">>]
            /\ UNCHANGED <<pc, lock>>
       ELSE /\ lock' = LockAcquire(lock, t)
            /\ pc' = [pc EXCEPT ![t] = "acq_lock"]
            /\ res' = [res EXCEPT ![t] = <<Op(k, "acquire"), "pending">>]
    /\ UNCHANGED <<handle, one_available, poolVars, sockVars>>

\* Pool.acquire inside the first `async with self._lock`
AcqFast(t, k) ==
    /\ pc[t] = "acq_lock"
    /\ lock.owner = t
    /\ \/ /\ conns # {}
          /\ TakeIdle(t, k)
          /\ UNCHANGED <<one_available, closed, exitstack, sockVars>>
       \/ /\ conns = {}
          /\ HasRoom
          /\ pc' = [pc EXCEPT ![t] = "acq_open"]
          /\ UNCHANGED <<handle, res, lock, one_available, poolVars, sockVars>>
       \/ /\ conns = {}
          /\ ~HasRoom
          /\ lock' = LockRelease(lock)
          /\ one_available' = LockAcquire(one_available, t)
          /\ pc' = [pc EXCEPT ![t] = "acq_cond"]
          /\ UNCHANGED <<handle, res, poolVars, sockVars>>

\* the factory, Connection.from_addr: trio.open_tcp_stream
FactoryOpen(t, k) ==
    /\ pc[t] = "acq_open"
    /\ \/ /\ Cardinality(opened) < MaxSockets
          /\ opened' = opened \cup {Cardinality(opened) + 1}
          /\ pc' = [pc EXCEPT ![t] = "acq_hello"]
          /\ UNCHANGED <<res, lock>>
       \/ /\ lock' = LockRelease(lock)
          /\ pc' = [pc EXCEPT ![t] = "idle"]
          /\ res' = [res EXCEPT ![t] = <<Op(k, "acquire"), "OSError">>]
          /\ UNCHANGED opened
    /\ UNCHANGED <<handle, one_available, poolVars, closes, close_exc>>

\* a create branch that does not count the connection it hands out
FactoryHello_NoCount(t, k) ==
    /\ pc[t] = "acq_hello"
    /\ \/ /\ exitstack' = Append(exitstack, Cardinality(opened))
          /\ lock' = LockRelease(lock)
          /\ Got(t, k, Cardinality(opened))
          /\ UNCHANGED <<acquired_num, conns, closed>>
       \/ /\ lock' = LockRelease(lock)
          /\ pc' = [pc EXCEPT ![t] = "idle"]
          /\ res' = [res EXCEPT ![t] = <<Op(k, "acquire"), "BrokenResourceError">>]
          /\ UNCHANGED <<handle, poolVars>>
    /\ UNCHANGED <<one_available, sockVars>>

\* the factory, conn.hello(hello), then the rest of the create branch
FactoryHello(t, k) ==
    /\ pc[t] = "acq_hello"
    /\ \/ /\ exitstack' = Append(exitstack, Cardinality(opened))
          /\ acquired_num' = acquired_num + 1
          /\ lock' = LockRelease(lock)
          /\ Got(t, k, Cardinality(opened))
          /\ UNCHANGED <<conns, closed>>
       \/ /\ lock' = LockRelease(lock)
          /\ pc' = [pc EXCEPT ![t] = "idle"]
          /\ res' = [res EXCEPT ![t] = <<Op(k, "acquire"), "BrokenResourceError">>]
          /\ UNCHANGED <<handle, poolVars>>
    /\ UNCHANGED <<one_available, sockVars>>

\* `async with self._one_available: await self._one_available.wait()`, up to the park
AcqWait(t) ==
    /\ pc[t] = "acq_cond"
    /\ one_available.owner = t
    /\ one_available' = CondWait(one_available, t)
    /\ pc' = [pc EXCEPT ![t] = "acq_parked"]
    /\ UNCHANGED <<handle, res, lock, poolVars, sockVars>>

\* a woken acquirer that enters the second `async with self._lock` inside the
\* `async with self._one_available` block
AcqWoken_KeepCond(t) ==
    /\ pc[t] = "acq_parked"
    /\ one_available.owner = t
    /\ lock' = LockAcquire(lock, t)
    /\ pc' = [pc EXCEPT ![t] = "acq_relock"]
    /\ UNCHANGED <<handle, res, one_available, poolVars, sockVars>>

\* woken: wait() returns holding the condition's lock, the block exits, the
\* second `async with self._lock` begins
AcqWoken(t) ==
    /\ pc[t] = "acq_parked"
    /\ one_available.owner = t
    /\ one_available' = LockRelease(one_available)
    /\ lock' = LockAcquire(lock, t)
    /\ pc' = [pc EXCEPT ![t] = "acq_relock"]
    /\ UNCHANGED <<handle, res, poolVars, sockVars>>

\* a second block of acquire that does not wait for the pool lock
AcqSlow_NoLock(t, k) ==
    /\ pc[t] = "acq_relock"
    /\ \/ /\ conns # {}
          /\ TakeIdle(t, k)
       \/ /\ conns = {}
          /\ lock' = LockRelease(lock)
          /\ pc' = [pc EXCEPT ![t] = "idle"]
          /\ res' = [res EXCEPT ![t] = <<Op(k, "acquire"), "KeyError">>]
          /\ UNCHANGED <<handle, acquired_num, conns>>
    /\ UNCHANGED <<one_available, closed, exitstack, sockVars>>

\* Pool.acquire inside the second `async with self._lock`
AcqSlow(t, k) ==
    /\ pc[t] = "acq_relock"
    /\ lock.owner = t
    /\ \/ /\ conns # {}
          /\ TakeIdle(t, k)
       \/ /\ conns = {}
          /\ lock' = LockRelease(lock)
          /\ pc' = [pc EXCEPT ![t] = "idle"]
          /\ res' = [res EXCEPT ![t] = <<Op(k, "acquire"), "KeyError">>]
          /\ UNCHANGED <<handle, acquired_num, conns>>
    /\ UNCHANGED <<one_available, closed, exitstack, sockVars>>

-----------------------------------------------------------------------------
\* release without the check of self._closed
ReleaseBegin_NoCheck(t, k, r, ifClosed) ==
    /\ lock' = LockAcquire(lock, t)
    /\ pc' = [pc EXCEPT ![t] = "rel_lock"]
    /\ res' = [res EXCEPT ![t] = r]

\* Pool.release(conn[t]) up to its first checkpoint; r is the result the
\* caller has so far, ifClosed the place the caller continues at when release raises
ReleaseBegin(t, k, r, ifClosed) ==
    IF closed
    THEN /\ res' = [res EXCEPT ![t] = <<Op(k, "release"), "ClosedPoolError">>]
         /\ pc' = [pc EXCEPT ![t] = ifClosed]
         /\ UNCHANGED lock
    ELSE /\ lock' = LockAcquire(lock, t)
         /\ pc' = [pc EXCEPT ![t] = "rel_lock"]
         /\ res' = [res EXCEPT ![t] = r]

\* Pool.release returns: to the caller of release, or through the `finally`
\* of acquire_then_release to the caller of Redis._round_trip, whose `conn`
\* goes out of scope
Released(t, k, outcome) ==
    /\ pc' = [pc EXCEPT ![t] = "idle"]
    /\ res' = [res EXCEPT ![t] = IF k = "pool" THEN <<"release", outcome>> ELSE @]
    /\ conn' = [conn EXCEPT ![t] = IF k = "pool" THEN @ ELSE None]
    /\ got_open' = [got_open EXCEPT ![t] = IF k = "pool" THEN @ ELSE FALSE]

\* a holder gives its connection back
ReleaseCall(t) ==
    /\ pc[t] = "holding"
    /\ ReleaseBegin(t, "pool", <<"release", "pending">>, "holding")
    /\ UNCHANGED <<handle, one_available, poolVars, sockVars>>

\* a caller calls release again on the connection it has already given back
ReleaseAgain(t) ==
    /\ pc[t] = "idle"
    /\ conn[t] # None
    /\ ReleaseBegin(t, "pool", <<"release", "pending">>, "idle")
    /\ UNCHANGED <<handle, one_available, poolVars, sockVars>>

\* release without the `if conn in self._conns: return`
RelLocked_NoGuard(t, k) ==
    /\ pc[t] = "rel_lock"
    /\ lock.owner = t
    /\ conns' = conns \cup {conn[t]}
    /\ acquired_num' = acquired_num - 1
    /\ one_available' = LockAcquire(one_available, t)
    /\ pc' = [pc EXCEPT ![t] = "rel_cond"]
    /\ UNCHANGED <<handle, res, lock, closed, exitstack, sockVars>>

\* Pool.release inside `async with self._lock`
RelLocked(t, k) ==
    /\ pc[t] = "rel_lock"
    /\ lock.owner = t
    /\ IF conn[t] \in conns
       THEN /\ lock' = LockRelease(lock)
            /\ Released(t, k, "noop")
            /\ UNCHANGED <<one_available, conns, acquired_num>>
       ELSE /\ conns' = conns \cup {conn[t]}
            /\ acquired_num' = acquired_num - 1
            /\ one_available' = LockAcquire(one_available, t)
            /\ pc' = [pc EXCEPT ![t] = "rel_cond"]
            /\ UNCHANGED <<handle, res, lock>>
    /\ UNCHANGED <<closed, exitstack, sockVars>>

\* release that looks at self._closed again before it notifies, and raises
RelNotify_Recheck(t, k) ==
    /\ pc[t] = "rel_cond"
    /\ one_available.owner = t
    /\ one_available' = LockRelease(IF closed THEN one_available ELSE CondNotify(one_available))
    /\ lock' = LockRelease(lock)
    /\ IF closed
       THEN /\ pc' = [pc EXCEPT ![t] = "idle"]
            /\ res' = [res EXCEPT ![t] = <<Op(k, "release"), "ClosedPoolError">>]
            /\ UNCHANGED handle
       ELSE Released(t, k, "ok")
    /\ UNCHANGED <<poolVars, sockVars>>

\* release that does not notify
RelNotify_NoNotify(t, k) ==
    /\ pc[t] = "rel_cond"
    /\ one_available.owner = t
    /\ one_available' = LockRelease(one_available)
    /\ lock' = LockRelease(lock)
    /\ Released(t, k, "ok")
    /\ UNCHANGED <<poolVars, sockVars>>

\* `async with self._one_available: self._one_available.notify(1)`, both blocks exit
RelNotify(t, k) ==
    /\ pc[t] = "rel_cond"
    /\ one_available.owner = t
    /\ one_available' = LockRelease(CondNotify(one_available))
    /\ lock' = LockRelease(lock)
    /\ Released(t, k, "ok")
    /\ UNCHANGED <<poolVars, sockVars>>

-----------------------------------------------------------------------------
\* Pool._exitstack.aclose() pops the newest callback and runs
\* Connection.__aexit__: send_eof() may raise, the socket is closed either way
\* and the exit stack keeps the exception until every callback has run
ExitOne(t) ==
    LET c == exitstack[Len(exitstack)]
        rest == SubSeq(exitstack, 1, Len(exitstack) - 1)
    IN  \E eof_raises \in BOOLEAN :
            LET exc == close_exc \/ eof_raises
            IN  /\ exitstack' = rest
                /\ closes' = [closes EXCEPT ![c] = @ + 1]
                /\ close_exc' = exc
                /\ IF rest = <<>>
                   THEN /\ pc' = [pc EXCEPT ![t] = "idle"]
                        /\ res' = [res EXCEPT ![t] =
                                     <<"aclose", IF exc THEN "BrokenResourceError" ELSE "ok">>]
                   ELSE /\ pc' = [pc EXCEPT ![t] = "closing"]
                        /\ res' = [res EXCEPT ![t] = <<"aclose", "pending">>]

\* aclose without the early return on a closed pool
CloseCall_NoGuard(t) ==
    /\ pc[t] = "idle"
    /\ IF Len(exitstack) # Cardinality(conns)
       THEN /\ res' = [res EXCEPT ![t] = <<"aclose", "AssertionError">>]
            /\ UNCHANGED <<pc, closed, exitstack, closes, close_exc>>
       ELSE /\ closed' = TRUE
            /\ IF exitstack = <<>>
               THEN /\ res' = [res EXCEPT ![t] = <<"aclose", "ok">>]
                    /\ UNCHANGED <<pc, exitstack, closes, close_exc>>
               ELSE /\ pc' = [pc EXCEPT ![t] = "closing"]
                    /\ res' = [res EXCEPT ![t] = <<"aclose", "pending">>]
                    /\ UNCHANGED <<exitstack, closes, close_exc>>
    /\ UNCHANGED <<handle, lock, one_available, acquired_num, conns, opened>>

\* aclose that marks the pool closed and returns without running the exit stack
CloseCall_NoExit(t) ==
    /\ pc[t] = "idle"
    /\ IF closed
       THEN /\ res' = [res EXCEPT ![t] = <<"aclose", "noop">>]
            /\ UNCHANGED closed
       ELSE IF Len(exitstack) # Cardinality(conns)
       THEN /\ res' = [res EXCEPT ![t] = <<"aclose", "AssertionError">>]
            /\ UNCHANGED closed
       ELSE /\ closed' = TRUE
            /\ res' = [res EXCEPT ![t] = <<"aclose", "ok">>]
    /\ UNCHANGED <<pc, handle, lock, one_available, acquired_num, conns, exitstack, sockVars>>

\* aclose without the assertion on the exit stack and the idle set
CloseCall_NoAssert(t) ==
    /\ pc[t] = "idle"
    /\ IF closed
       THEN /\ res' = [res EXCEPT ![t] = <<"aclose", "noop">>]
            /\ UNCHANGED <<pc, closed, exitstack, closes, close_exc>>
       ELSE /\ closed' = TRUE
            /\ IF exitstack = <<>>
               THEN /\ res' = [res EXCEPT ![t] = <<"aclose", "ok">>]
                    /\ UNCHANGED <<pc, exitstack, closes, close_exc>>
               ELSE /\ pc' = [pc EXCEPT ![t] = "closing"]
                    /\ res' = [res EXCEPT ![t] = <<"aclose", "pending">>]
                    /\ UNCHANGED <<exitstack, closes, close_exc>>
    /\ UNCHANGED <<handle, lock, one_available, acquired_num, conns, opened>>

\* Pool.aclose up to its first checkpoint
CloseCall(t) ==
    /\ pc[t] = "idle"
    /\ IF closed
       THEN /\ res' = [res EXCEPT ![t] = <<"aclose", "noop">>]
            /\ UNCHANGED <<pc, closed, exitstack, closes, close_exc>>
       ELSE IF Len(exitstack) # Cardinality(conns)
       THEN /\ res' = [res EXCEPT ![t] = <<"aclose", "AssertionError">>]
            /\ UNCHANGED <<pc, closed, exitstack, closes, close_exc>>
       ELSE /\ closed' = TRUE
            /\ IF exitstack = <<>>
               THEN /\ res' = [res EXCEPT ![t] = <<"aclose", "ok">>]
                    /\ UNCHANGED <<pc, exitstack, closes, close_exc>>
               ELSE /\ pc' = [pc EXCEPT ![t] = "closing"]
                    /\ res' = [res EXCEPT ![t] = <<"aclose", "pending">>]
                    /\ UNCHANGED <<exitstack, closes, close_exc>>
    /\ UNCHANGED <<handle, lock, one_available, acquired_num, conns, opened>>

\* Pool._exitstack.aclose(): one registered connection is closed
CloseStep(t) ==
    /\ pc[t] = "closing"
    /\ exitstack # <<>>
    /\ ExitOne(t)
    /\ UNCHANGED <<handle, lock, one_available, acquired_num, conns, closed, opened>>

-----------------------------------------------------------------------------
\* callers that use the Pool directly
Next ==
    \E t \in Tasks :
        \/ AcquireCall(t, "pool") /\ UNCHANGED notPool
        \/ AcqFast(t, "pool") /\ UNCHANGED notPool
        \/ FactoryOpen(t, "pool") /\ UNCHANGED notPool
        \/ FactoryHello(t, "pool") /\ UNCHANGED notPool
        \/ AcqWait(t) /\ UNCHANGED notPool
        \/ AcqWoken(t) /\ UNCHANGED notPool
        \/ AcqSlow(t, "pool") /\ UNCHANGED notPool
        \/ ReleaseCall(t) /\ UNCHANGED notPool
        \/ ReleaseAgain(t) /\ UNCHANGED notPool
        \/ RelLocked(t, "pool") /\ UNCHANGED notPool
        \/ RelNotify(t, "pool") /\ UNCHANGED notPool
        \/ CloseCall(t) /\ UNCHANGED notPool
        \/ CloseStep(t) /\ UNCHANGED notPool

Spec == Init /\ [][Next]_vars

-----------------------------------------------------------------------------
\* Redis._round_trip: `async with self._pool.acquire_then_release() as conn:
\* return await conn.round_trip(cmd, *args)`

\* the round trips in flight on connection c: the command is being sent or its
\* reply is being received
InFlight(c) == {t \in Tasks : pc[t] \in {"rt_send", "rt_recv"} /\ conn[t] = c}

\* Connection._round_trip: `await sock.send_all(packed)` ends
RtSend(t) ==
    /\ pc[t] = "rt_send"
    /\ \/ /\ pc' = [pc EXCEPT ![t] = "rt_recv"]
          /\ UNCHANGED <<res, lock>>
       \/ ReleaseBegin(t, "redis", <<"round_trip", "BrokenResourceError">>, "idle")
    /\ UNCHANGED <<handle, one_available, poolVars, sockVars>>

\* Connection._round_trip: the receive loop ends with a complete reply or with
\* a zero-byte receive; the `finally` of acquire_then_release calls release
RtRecv(t) ==
    /\ pc[t] = "rt_recv"
    /\ \E outcome \in {"reply", "BrokenResourceError"} :
           ReleaseBegin(t, "redis", <<"round_trip", outcome>>, "idle")
    /\ UNCHANGED <<handle, one_available, poolVars, sockVars>>

\* the caller is cancelled while its round trip is suspended in send_all or
\* receive_some: Cancelled is raised there, the `finally` of
\* acquire_then_release calls release, which raises ClosedPoolError on a closed
\* pool and otherwise raises Cancelled again at its first checkpoint (the
\* acquire of self._lock), before it has changed anything
RtCancel(t) ==
    /\ pc[t] \in {"rt_send", "rt_recv"}
    /\ pc' = [pc EXCEPT ![t] = "idle"]
    /\ res' = [res EXCEPT ![t] =
                 <<"round_trip", IF closed THEN "ClosedPoolError" ELSE "Cancelled">>]
    /\ conn' = [conn EXCEPT ![t] = None]
    /\ got_open' = [got_open EXCEPT ![t] = FALSE]
    /\ UNCHANGED <<lock, one_available, poolVars, sockVars>>

\* callers that send every command through Redis._round_trip
NextRedis ==
    \E t \in Tasks :
        \/ AcquireCall(t, "redis") /\ UNCHANGED notPool
        \/ AcqFast(t, "redis") /\ UNCHANGED notPool
        \/ FactoryOpen(t, "redis") /\ UNCHANGED notPool
        \/ FactoryHello(t, "redis") /\ UNCHANGED notPool
        \/ AcqWait(t) /\ UNCHANGED notPool
        \/ AcqWoken(t) /\ UNCHANGED notPool
        \/ AcqSlow(t, "redis") /\ UNCHANGED notPool
        \/ RtSend(t) /\ UNCHANGED notPool
        \/ RtRecv(t) /\ UNCHANGED notPool
        \/ RtCancel(t) /\ UNCHANGED notPool
        \/ RelLocked(t, "redis") /\ UNCHANGED notPool
        \/ RelNotify(t, "redis") /\ UNCHANGED notPool
        \/ CloseCall(t) /\ UNCHANGED notPool
        \/ CloseStep(t) /\ UNCHANGED notPool

SpecRedis == Init /\ [][NextRedis]_vars

-----------------------------------------------------------------------------
\* An open pool whose callers acquire, hold and release once, with a factory
\* that succeeds.  trio runs every runnable task, so each step a task has
\* begun is taken; every holder releases; no caller is obliged to call acquire.

Progress(t) ==
    \/ AcqFast(t, "pool") /\ UNCHANGED notPool
    \/ FactoryOpen(t, "pool") /\ pc'[t] = "acq_hello" /\ UNCHANGED notPool
    \/ FactoryHello(t, "pool") /\ pc'[t] = "holding" /\ UNCHANGED notPool
    \/ AcqWait(t) /\ UNCHANGED notPool
    \/ AcqWoken(t) /\ UNCHANGED notPool
    \/ AcqSlow(t, "pool") /\ UNCHANGED notPool
    \/ ReleaseCall(t) /\ UNCHANGED notPool
    \/ RelLocked(t, "pool") /\ UNCHANGED notPool
    \/ RelNotify(t, "pool") /\ UNCHANGED notPool

NextOpen ==
    \E t \in Tasks :
        \/ AcquireCall(t, "pool") /\ UNCHANGED notPool
        \/ Progress(t)

SpecFair == Init /\ [][NextOpen]_vars /\ \A t \in Tasks : WF_vars(Progress(t))

-----------------------------------------------------------------------------
\* Cancellation of a caller that waits in acquire for a connection to be
\* released.  The open pool of SpecFair with one caller more, so that two can
\* wait while one holds the connection.

Callers == 1..(NumTasks + 1)

InitCancel ==
    /\ pc = [t \in Callers |-> "idle"]
    /\ conn = [t \in Callers |-> None]
    /\ got_open = [t \in Callers |-> FALSE]
    /\ res = [t \in Callers |-> <<"none", "none">>]
    /\ lock = [owner |-> None, waiters |-> <<>>]
    /\ one_available = [owner |-> None, waiters |-> <<>>, lot |-> <<>>]
    /\ acquired_num = 0
    /\ conns = {}
    /\ closed = FALSE
    /\ exitstack = <<>>
    /\ opened = {}
    /\ closes = [s \in Socks |-> 0]
    /\ close_exc = FALSE
    /\ ConnInit
    /\ TxInit
    /\ ScanInit
    /\ PzInit
    /\ PackInit

\* the queue q without task t
Without(q, t) == SelectSeq(q, LAMBDA u : u # t)

\* task t is suspended in `await self._one_available.wait()`: parked on the
\* condition, or notified and queued for the condition's lock
Waiting(t) == pc[t] = "acq_parked" /\ one_available.owner # t

\* the caller is cancelled while suspended in wait(): trio takes it out of the
\* queue it sleeps on (the condition's before a notify, the lock's after it)
\* and wait() takes the condition's lock again, shielded, before it raises
AcqCancel(t) ==
    /\ Waiting(t)
    /\ one_available' = LockAcquire([one_available EXCEPT
                                        !.lot = Without(@, t),
                                        !.waiters = Without(@, t)], t)
    /\ pc' = [pc EXCEPT ![t] = "acq_abort"]
    /\ UNCHANGED <<handle, res, lock, poolVars, sockVars>>

\* wait() raises Cancelled holding the condition's lock; the
\* `async with self._one_available` block exits
AcqAborted(t) ==
    /\ pc[t] = "acq_abort"
    /\ one_available.owner = t
    /\ one_available' = LockRelease(one_available)
    /\ pc' = [pc EXCEPT ![t] = "idle"]
    /\ res' = [res EXCEPT ![t] = <<"acquire", "Cancelled">>]
    /\ UNCHANGED <<handle, lock, poolVars, sockVars>>

\* the caller is cancelled after the hand-off of the condition's lock has made
\* it runnable: wait() returns, the block exits, and Cancelled is raised at the
\* next checkpoint, the entry of the second `async with self._lock`
AcqWokenCancelled(t) ==
    /\ pc[t] = "acq_parked"
    /\ one_available.owner = t
    /\ one_available' = LockRelease(one_available)
    /\ pc' = [pc EXCEPT ![t] = "idle"]
    /\ res' = [res EXCEPT ![t] = <<"acquire", "Cancelled">>]
    /\ UNCHANGED <<handle, lock, poolVars, sockVars>>

\* the steps trio takes for a task once they are runnable
ProgressCancel(t) ==
    \/ Progress(t)
    \/ AcqAborted(t) /\ UNCHANGED notPool

NextCancel ==
    \E t \in Callers :
        \/ AcquireCall(t, "pool") /\ UNCHANGED notPool
        \/ ProgressCancel(t)
        \/ AcqCancel(t) /\ UNCHANGED notPool
        \/ AcqWokenCancelled(t) /\ UNCHANGED notPool

SpecCancel ==
    InitCancel /\ [][NextCancel]_vars /\ \A t \in Callers : WF_vars(ProgressCancel(t))

-----------------------------------------------------------------------------
\* pack_cmd.  Bytes are sequences of numbers 0..255, text is a sequence of
\* code points below 2048, an argument is <<type, value>>; a float is given
\* by the number of halves it holds (3 is 1.5).

Cmds == {"GET", "PING"}

\* the opcode as bytes
Opcode(c) == IF c = "GET" THEN <<71, 69, 84>> ELSE <<80, 73, 78, 71>>

ArgValues ==
    {<<"int", 0>>, <<"int", -12>>, <<"int", 105>>,
     <<"float", 1>>, <<"float", 3>>, <<"float", 4>>,
     <<"str", <<>>>>, <<"str", <<97>>>>, <<"str", <<233, 97>>>>,
     <<"bytes", <<>>>>, <<"bytes", <<13, 10>>>>, <<"bytes", [i \in 1..10 |-> 255]>>,
     <<"NoneType", 0>>}

ArgLists == UNION {[1..n -> ArgValues] : n \in 0..MaxArgs}

CRLF == <<13, 10>>

\* "{}".format(n).encode() for n >= 0
RECURSIVE Digits(_)
Digits(n) == IF n < 10 THEN <<48 + n>> ELSE Digits(n \div 10) \o <<48 + (n % 10)>>

\* str(arg).encode() for an int and for a float
StrNumber(arg) ==
    IF arg[1] = "int"
    THEN IF arg[2] < 0 THEN <<45>> \o Digits(-arg[2]) ELSE Digits(arg[2])
    ELSE Digits(arg[2] \div 2) \o <<46>> \o (IF arg[2] % 2 = 0 THEN <<48>> ELSE <<53>>)

\* arg.encode("utf-8")
RECURSIVE Utf8(_)
Utf8(q) ==
    IF q = <<>> THEN <<>>
    ELSE (IF Head(q) < 128
          THEN <<Head(q)>>
          ELSE <<192 + (Head(q) \div 64), 128 + (Head(q) % 64)>>) \o Utf8(Tail(q))

\* the isinstance chain of pack_cmd reaches `raise RuntimeError`
Unknown(arg) == arg[1] \notin {"int", "float", "str", "bytes"}

\* arg_bin of a supported argument
ArgBin(arg) ==
    IF arg[1] \in {"int", "float"} THEN StrNumber(arg)
    ELSE IF arg[1] = "str" THEN Utf8(arg[2])
    ELSE arg[2]

\* an element whose length is the length of the text, not of its bytes
Bulk_CharLen(arg) ==
    <<<<36>> \o Digits(IF arg[1] = "str" THEN Len(arg[2]) ELSE Len(ArgBin(arg))), ArgBin(arg)>>

\* the two parts _parts yields for an argument: "${}".format(len(arg_bin)), arg_bin
Bulk(arg) ==
    <<<<36>> \o Digits(Len(ArgBin(arg))), ArgBin(arg)>>

\* the parts _parts yields for args[i..]
RECURSIVE ArgParts(_, _)
ArgParts(args, i) ==
    IF i > Len(args) THEN <<>> ELSE Bulk(args[i]) \o ArgParts(args, i + 1)

\* b"\r\n".join(parts)
RECURSIVE Join(_)
Join(parts) ==
    IF Len(parts) = 1 THEN parts[1]
    ELSE parts[1] \o CRLF \o Join(Tail(parts))

\* pack_cmd(cmd, *args): the bytes, or RuntimeError(unknown type for arg)
PackCmd(cmd, args) ==
    IF \E i \in 1..Len(args) : Unknown(args[i])
    THEN [ok |-> FALSE, bytes |-> <<>>]
    ELSE [ok |-> TRUE,
          bytes |-> Join(<<<<42>> \o Digits(Len(args) + 1),
                           <<36>> \o Digits(Len(cmd)),
                           cmd>> \o ArgParts(args, 1) \o <<<<>>>>)]

\* a call of pack_cmd
Pack(c, args) ==
    /\ ~pk_done
    /\ pk_done' = TRUE
    /\ pk_cmd' = c
    /\ pk_args' = args
    /\ pk_out' = PackCmd(Opcode(c), args)
    /\ UNCHANGED notPack

NextPack == \E c \in Cmds, args \in ArgLists : Pack(c, args)

SpecPack == Init /\ [][NextPack]_vars

-----------------------------------------------------------------------------
\* One Connection and its caller.  The commands are names; the server answers
\* each command it has received with one reply of 1..MaxReply bytes, which
\* receive_some delivers in pieces; the peer can close the stream at any time.

\* the argument lists of the calls of round_trip
ConnArgs == {<<>>, <<<<"str", <<97>>>>, <<"int", 105>>>>, <<<<"str", <<97>>>>, <<"NoneType", 0>>>>}

Last(q) == q[Len(q)]

\* Connection._round_trip up to the end of `await sock.send_all(packed)`:
\* the command is written, or the write fails on a stream the peer has closed.
\* When the reply to an earlier command has not been read to its end, the
\* stream and the decoder go on with that reply
SendAll(op, cmd) ==
    /\ Len(sent) < MaxSent
    /\ \/ /\ sent' = Append(sent, cmd)
          /\ cpc' = op
          /\ cres' = <<op, cmd, "pending">>
          /\ IF eof
             THEN UNCHANGED <<need, fed, stale>>
             ELSE IF fed < need
             THEN /\ stale' = TRUE
                  /\ UNCHANGED <<need, fed>>
             ELSE /\ need' \in 1..MaxReply
                  /\ fed' = 0
                  /\ UNCHANGED stale
       \/ /\ eof
          /\ cres' = <<op, cmd, "BrokenResourceError">>
          /\ UNCHANGED <<cpc, sent, need, fed, stale>>

\* hello without the check of self._said_hello
HelloCall_Always ==
    /\ cpc = "idle"
    /\ SendAll("hello", "HELLO")
    /\ UNCHANGED <<said_hello, round_trip, eof, cargs, notConn>>

\* Connection.hello up to its first checkpoint
HelloCall ==
    /\ cpc = "idle"
    /\ IF said_hello
       THEN /\ cres' = <<"hello", "HELLO", "noop">>
            /\ UNCHANGED <<cpc, sent, need, fed, stale>>
       ELSE SendAll("hello", "HELLO")
    /\ UNCHANGED <<said_hello, round_trip, eof, cargs, notConn>>

\* a call of conn.round_trip that runs _round_trip whatever the attribute is
\* bound to
RoundTripCall_Unbound(cmd, args) ==
    /\ cpc = "idle"
    /\ cargs' = args
    /\ SendAll("round_trip", cmd)
    /\ UNCHANGED <<said_hello, round_trip, eof, notConn>>

\* a _round_trip that writes the command whatever pack_cmd did
RoundTripCall_NoPack(cmd, args) ==
    /\ cpc = "idle"
    /\ cargs' = args
    /\ IF round_trip = "round_trip"
       THEN /\ ~said_hello
            /\ cres' = <<"round_trip", cmd, "RuntimeError">>
            /\ UNCHANGED <<cpc, sent, need, fed, stale>>
       ELSE SendAll("round_trip", cmd)
    /\ UNCHANGED <<said_hello, round_trip, eof, notConn>>

\* a call of conn.round_trip(cmd, *args): the method of the class raises; the
\* bound _round_trip runs up to its first checkpoint, or pack_cmd raises
RoundTripCall(cmd, args) ==
    /\ cpc = "idle"
    /\ cargs' = args
    /\ IF round_trip = "round_trip"
       THEN /\ ~said_hello
            /\ cres' = <<"round_trip", cmd, "RuntimeError">>
            /\ UNCHANGED <<cpc, sent, need, fed, stale>>
       ELSE IF ~PackCmd(Opcode(cmd), args).ok
       THEN /\ cres' = <<"round_trip", cmd, "unknown type for arg">>
            /\ UNCHANGED <<cpc, sent, need, fed, stale>>
       ELSE SendAll("round_trip", cmd)
    /\ UNCHANGED <<said_hello, round_trip, eof, notConn>>

\* _round_trip returns `result` to hello, which marks the connection ready and
\* rebinds round_trip, or to the caller of round_trip
Return ==
    /\ cres' = <<cpc, Last(sent), "reply">>
    /\ cpc' = "idle"
    /\ IF cpc = "hello"
       THEN /\ said_hello' = TRUE
            /\ round_trip' = "_round_trip"
       ELSE UNCHANGED <<said_hello, round_trip>>

\* a receive loop that returns what the decoder holds when receive_some
\* returns b""
ReceiveSome_ReturnPartial ==
    /\ cpc # "idle"
    /\ IF eof
       THEN /\ Return
            /\ UNCHANGED <<sent, need, fed>>
       ELSE \E n \in 1..(need - fed) :
                /\ fed' = fed + n
                /\ IF fed' = need
                   THEN Return
                   ELSE UNCHANGED <<cpc, said_hello, round_trip, cres>>
                /\ UNCHANGED <<sent, need>>
    /\ UNCHANGED <<eof, cargs, stale, notConn>>

\* one turn of the receive loop of _round_trip: receive_some, the check for
\* b"", protocol.feed, protocol.get_object
ReceiveSome ==
    /\ cpc # "idle"
    /\ IF eof
       THEN /\ cres' = <<cpc, Last(sent), "BrokenResourceError">>
            /\ cpc' = "idle"
            /\ UNCHANGED <<said_hello, round_trip, sent, need, fed>>
       ELSE \E n \in 1..(need - fed) :
                /\ fed' = fed + n
                /\ IF fed' = need
                   THEN Return
                   ELSE UNCHANGED <<cpc, said_hello, round_trip, cres>>
                /\ UNCHANGED <<sent, need>>
    /\ UNCHANGED <<eof, cargs, stale, notConn>>

\* the peer closes the stream
PeerClose ==
    /\ ~eof
    /\ eof' = TRUE
    /\ UNCHANGED <<cpc, said_hello, round_trip, sent, need, fed, cres, cargs, stale, notConn>>

NextConn ==
    \/ HelloCall
    \/ \E cmd \in Cmds, args \in ConnArgs : RoundTripCall(cmd, args)
    \/ ReceiveSome
    \/ PeerClose

SpecConn == Init /\ [][NextConn]_vars

\* the caller is cancelled while _round_trip is suspended in receive_some:
\* Cancelled is raised there and leaves the call; the stream and the decoder
\* stay as they are
RoundTripCancel ==
    /\ cpc = "round_trip"
    /\ cpc' = "idle"
    /\ cres' = <<cpc, Last(sent), "Cancelled">>
    /\ UNCHANGED <<said_hello, round_trip, sent, need, fed, eof, cargs, stale, notConn>>

\* one connection whose callers may be cancelled: the user of a Transaction,
\* or of a connection taken from the pool, who goes on after a timeout
NextConnCancel ==
    \/ NextConn
    \/ RoundTripCancel

SpecConnCancel == Init /\ [][NextConnCancel]_vars

-----------------------------------------------------------------------------
\* One open_transaction scope: `with Transaction(conn) as tx: yield tx`.  The
\* round trip of a call ends with a reply or raises (ok); the body may catch
\* what a call raised and go on, or leave the scope with it.

\* how many of the calls made are one of ops
RECURSIVE Count(_, _)
Count(q, ops) ==
    IF q = <<>> THEN 0
    ELSE Count(Tail(q), ops) + (IF Head(q) \in ops THEN 1 ELSE 0)

Multis == Count(calls, {"multi"})
Terms == Count(calls, {"exec", "discard"})

\* a call on the transaction: _tx_count changes by d before the round trip
TxCall(op, d, ok) ==
    /\ Len(calls) < MaxTxOps
    /\ tx_count' = tx_count + d
    /\ calls' = Append(calls, op)
    /\ tx_res' = <<op, IF ok THEN "reply" ELSE "error">>
    /\ UNCHANGED <<tx_pc, tx_conn, notTx>>

\* Transaction.__enter__
TxEnter ==
    /\ tx_pc = "out"
    /\ tx_pc' = "in"
    /\ UNCHANGED <<tx_count, calls, tx_res, tx_conn, notTx>>

\* Transaction.multi
TxMulti(ok) ==
    /\ tx_pc = "in"
    /\ TxCall("multi", 1, ok)

\* Transaction.discard
TxDiscard(ok) ==
    /\ tx_pc = "in"
    /\ TxCall("discard", -1, ok)

\* an exec that leaves _tx_count alone
TxExec_NoCount(ok) ==
    /\ tx_pc = "in"
    /\ TxCall("exec", 0, ok)

\* Transaction.exec
TxExec(ok) ==
    /\ tx_pc = "in"
    /\ TxCall("exec", -1, ok)

\* any other command of the mixins, such as set
TxCommand(ok) ==
    /\ tx_pc = "in"
    /\ TxCall("set", 0, ok)

\* Transaction.__exit__: it raises when the counts do not match and clears
\* self._conn only when they do
Exit(exc) ==
    /\ tx_pc' = "exited"
    /\ tx_res' = <<"exit", IF tx_count # 0 THEN "RuntimeError"
                           ELSE IF exc THEN "propagated" ELSE "ok">>
    /\ tx_conn' = IF tx_count # 0 THEN tx_conn ELSE None
    /\ UNCHANGED <<tx_count, calls>>

\* Transaction.__exit__, the body having ended normally or with an exception
TxExit(exc) ==
    /\ tx_pc = "in"
    /\ Exit(exc)
    /\ UNCHANGED notTx

NextTx ==
    \/ TxEnter
    \/ \E ok \in BOOLEAN : TxMulti(ok)
    \/ \E ok \in BOOLEAN : TxDiscard(ok)
    \/ \E ok \in BOOLEAN : TxExec(ok)
    \/ \E ok \in BOOLEAN : TxCommand(ok)
    \/ \E exc \in BOOLEAN : TxExit(exc)

SpecTx == Init /\ [][NextTx]_vars

-----------------------------------------------------------------------------
\* Redis.open_transaction on an open pool: one caller runs one scope
\* `async with redis.open_transaction() as tx`, the other callers send
\* commands through Redis._round_trip.

ScopeUser == 1

\* how task t uses the pool
KindOf(t) == IF t = ScopeUser THEN "pool" ELSE "redis"

\* acquire has returned `conn`; `with Transaction(conn) as tx: yield tx`
ScopeEnter(t) ==
    /\ pc[t] = "holding"
    /\ tx_pc = "out"
    /\ tx_pc' = "in"
    /\ tx_conn' = conn[t]
    /\ pc' = [pc EXCEPT ![t] = "scope"]
    /\ UNCHANGED <<tx_count, calls, tx_res>>
    /\ UNCHANGED <<handle, res, lock, one_available, poolVars, sockVars>>
    /\ UNCHANGED <<connVars, scanVars, pzVars, packVars>>

\* the body ends, normally or with an exception of its own: Transaction.__exit__
\* runs and the `finally` of acquire_then_release calls release
ScopeExit(t, exc) ==
    /\ pc[t] = "scope"
    /\ tx_pc = "in"
    /\ Exit(exc)
    /\ ReleaseBegin(t, "pool", <<"release", "pending">>, "idle")
    /\ UNCHANGED <<handle, one_available, poolVars, sockVars>>
    /\ UNCHANGED <<connVars, scanVars, pzVars, packVars>>

\* the caller is cancelled inside the body: Cancelled leaves the body,
\* Transaction.__exit__ runs, and the release in the `finally` raises
\* ClosedPoolError on a closed pool and otherwise Cancelled at its first
\* checkpoint, the acquire of self._lock, before it has changed anything
ScopeCancel(t) ==
    /\ pc[t] = "scope"
    /\ tx_pc = "in"
    /\ Exit(TRUE)
    /\ pc' = [pc EXCEPT ![t] = "idle"]
    /\ res' = [res EXCEPT ![t] =
                 <<"release", IF closed THEN "ClosedPoolError" ELSE "Cancelled">>]
    /\ UNCHANGED <<handle, lock, one_available, poolVars, sockVars>>
    /\ UNCHANGED <<connVars, scanVars, pzVars, packVars>>

NextScope ==
    \/ \E t \in Tasks :
           \/ (t = ScopeUser => tx_pc = "out") /\ AcquireCall(t, KindOf(t)) /\ UNCHANGED notPool
           \/ AcqFast(t, KindOf(t)) /\ UNCHANGED notPool
           \/ FactoryOpen(t, KindOf(t)) /\ UNCHANGED notPool
           \/ FactoryHello(t, KindOf(t)) /\ UNCHANGED notPool
           \/ AcqWait(t) /\ UNCHANGED notPool
           \/ AcqWoken(t) /\ UNCHANGED notPool
           \/ AcqSlow(t, KindOf(t)) /\ UNCHANGED notPool
           \/ RelLocked(t, KindOf(t)) /\ UNCHANGED notPool
           \/ RelNotify(t, KindOf(t)) /\ UNCHANGED notPool
    \/ \E t \in Tasks \ {ScopeUser} :
           \/ RtSend(t) /\ UNCHANGED notPool
           \/ RtRecv(t) /\ UNCHANGED notPool
           \/ RtCancel(t) /\ UNCHANGED notPool
    \/ ScopeEnter(ScopeUser)
    \/ \E ok \in BOOLEAN : TxMulti(ok)
    \/ \E ok \in BOOLEAN : TxDiscard(ok)
    \/ \E ok \in BOOLEAN : TxExec(ok)
    \/ \E ok \in BOOLEAN : TxCommand(ok)
    \/ \E exc \in BOOLEAN : ScopeExit(ScopeUser, exc)
    \/ ScopeCancel(ScopeUser)

SpecScope == Init /\ [][NextScope]_vars

-----------------------------------------------------------------------------
\* One Scanner and its consumer.  _scan returns any cursor and any batch of at
\* most MaxBatch items; the server ends the scan with the zero cursor after at
\* most MaxFetches batches.

Items == {"a", "b", "c"}

\* the cursors the server returns: b"0" ends the scan
Cursors == {0, 3}

Batches == UNION {[1..n -> Items] : n \in 0..MaxBatch}

\* raise StopAsyncIteration
Stop ==
    /\ sc_res' = "StopAsyncIteration"
    /\ sc_pc' = "idle"

\* a pop that leaves the item in the stash
Pop_Peek(q) ==
    /\ stash' = q
    /\ yielded' = Append(yielded, Last(q))
    /\ sc_res' = "item"
    /\ sc_pc' = "idle"

\* `return self._stash.pop()` on the non-empty list q
Pop(q) ==
    /\ stash' = SubSeq(q, 1, Len(q) - 1)
    /\ yielded' = Append(yielded, Last(q))
    /\ sc_res' = "item"
    /\ sc_pc' = "idle"

\* __aiter__ without the check of self._state
Aiter_NoCheck ==
    /\ sc_pc = "idle"
    /\ state' = "started"
    /\ sc_res' = "aiter"
    /\ UNCHANGED <<sc_pc, cursor, stash, asked, fetches, fetched, yielded, after_stop, notScan>>

\* __aiter__ that also starts a scanner that has stopped
Aiter_Restart ==
    /\ sc_pc = "idle"
    /\ IF state \notin {"init", "stopped"}
       THEN /\ sc_res' = "illegal state to start iter"
            /\ UNCHANGED state
       ELSE /\ state' = "started"
            /\ sc_res' = "aiter"
    /\ UNCHANGED <<sc_pc, cursor, stash, asked, fetches, fetched, yielded, after_stop, notScan>>

\* Scanner.__aiter__
Aiter ==
    /\ sc_pc = "idle"
    /\ IF state # "init"
       THEN /\ sc_res' = "illegal state to start iter"
            /\ UNCHANGED state
       ELSE /\ state' = "started"
            /\ sc_res' = "aiter"
    /\ UNCHANGED <<sc_pc, cursor, stash, asked, fetches, fetched, yielded, after_stop, notScan>>

\* __anext__ without the check of the state stopped
AnextCall_NoStopped ==
    /\ sc_pc = "idle"
    /\ after_stop' = (after_stop \/ state = "stopped")
    /\ IF state \notin {"started", "scanned"}
       THEN /\ sc_res' = "illegal state to next"
            /\ UNCHANGED <<sc_pc, state, stash, asked, yielded>>
       ELSE IF stash # <<>>
       THEN /\ Pop(stash)
            /\ UNCHANGED <<state, asked>>
       ELSE IF state = "scanned"
       THEN /\ cursor = 0
            /\ state' = "stopped"
            /\ Stop
            /\ UNCHANGED <<stash, asked, yielded>>
       ELSE /\ sc_pc' = "scan"
            /\ sc_res' = "pending"
            /\ asked' = <<cursor>>
            /\ UNCHANGED <<state, stash, yielded>>
    /\ UNCHANGED <<cursor, fetches, fetched, notScan>>

\* __anext__ that fetches again when the stash is empty in state scanned
AnextCall_Refetch ==
    /\ sc_pc = "idle"
    /\ after_stop' = (after_stop \/ state = "stopped")
    /\ IF state = "stopped"
       THEN /\ Stop
            /\ UNCHANGED <<state, stash, asked, yielded>>
       ELSE IF state \notin {"started", "scanned"}
       THEN /\ sc_res' = "illegal state to next"
            /\ UNCHANGED <<sc_pc, state, stash, asked, yielded>>
       ELSE IF stash # <<>>
       THEN /\ Pop(stash)
            /\ UNCHANGED <<state, asked>>
       ELSE /\ sc_pc' = "scan"
            /\ sc_res' = "pending"
            /\ asked' = <<cursor>>
            /\ UNCHANGED <<state, stash, yielded>>
    /\ UNCHANGED <<cursor, fetches, fetched, notScan>>

\* Scanner.__anext__ up to its first checkpoint, the await of self._scan()
AnextCall ==
    /\ sc_pc = "idle"
    /\ after_stop' = (after_stop \/ state = "stopped")
    /\ IF state = "stopped"
       THEN /\ Stop
            /\ UNCHANGED <<state, stash, asked, yielded>>
       ELSE IF state \notin {"started", "scanned"}
       THEN /\ sc_res' = "illegal state to next"
            /\ UNCHANGED <<sc_pc, state, stash, asked, yielded>>
       ELSE IF stash # <<>>
       THEN /\ Pop(stash)
            /\ UNCHANGED <<state, asked>>
       ELSE IF state = "scanned"
       THEN /\ cursor = 0
            /\ state' = "stopped"
            /\ Stop
            /\ UNCHANGED <<stash, asked, yielded>>
       ELSE /\ sc_pc' = "scan"
            /\ sc_res' = "pending"
            /\ asked' = <<cursor>>
            /\ UNCHANGED <<state, stash, yielded>>
    /\ UNCHANGED <<cursor, fetches, fetched, notScan>>

\* a scanner that does not note the zero cursor
ScanReturn_NoScanned(cur, batch) ==
    /\ sc_pc = "scan"
    /\ fetches < MaxFetches
    /\ cursor' = cur
    /\ fetches' = fetches + 1
    /\ fetched' = fetched \o batch
    /\ IF batch # <<>>
       THEN /\ Pop(batch)
            /\ UNCHANGED asked
       ELSE /\ stash' = batch
            /\ asked' = <<cur>>
            /\ UNCHANGED <<yielded, sc_res, sc_pc>>
    /\ UNCHANGED <<state, after_stop, notScan>>

\* a scanner that takes an empty batch for the end of the scan
ScanReturn_StopOnEmpty(cur, batch) ==
    /\ sc_pc = "scan"
    /\ fetches < MaxFetches
    /\ fetches = MaxFetches - 1 => cur = 0
    /\ cursor' = cur
    /\ fetches' = fetches + 1
    /\ fetched' = fetched \o batch
    /\ IF batch = <<>>
       THEN /\ state' = "stopped"
            /\ stash' = batch
            /\ Stop
            /\ UNCHANGED yielded
       ELSE /\ state' = IF cur = 0 THEN "scanned" ELSE state
            /\ Pop(batch)
    /\ UNCHANGED <<asked, after_stop, notScan>>

\* Scanner.__anext__ from the return of `await self._scan()` to its next
\* checkpoint: an empty batch with a non-zero cursor makes the last pop raise
\* IndexError, the loop of __anext__ calls _next again and _next awaits
\* self._scan() again, which passes self._cursor
ScanReturn(cur, batch) ==
    /\ sc_pc = "scan"
    /\ fetches < MaxFetches
    /\ fetches = MaxFetches - 1 => cur = 0
    /\ cursor' = cur
    /\ fetches' = fetches + 1
    /\ fetched' = fetched \o batch
    /\ IF cur = 0 /\ batch = <<>>
       THEN /\ state' = "stopped"
            /\ stash' = batch
            /\ Stop
            /\ UNCHANGED <<asked, yielded>>
       ELSE /\ state' = IF cur = 0 THEN "scanned" ELSE state
            /\ IF batch # <<>>
               THEN /\ Pop(batch)
                    /\ UNCHANGED asked
               ELSE /\ stash' = batch
                    /\ asked' = <<cur>>
                    /\ UNCHANGED <<yielded, sc_res, sc_pc>>
    /\ UNCHANGED <<after_stop, notScan>>

\* a failed fetch that ends the scan
ScanRaise_Stop ==
    /\ sc_pc = "scan"
    /\ sc_pc' = "idle"
    /\ sc_res' = "error"
    /\ state' = "stopped"
    /\ UNCHANGED <<cursor, stash, asked, fetches, fetched, yielded, after_stop, notScan>>

\* `await self._scan()` raises: the round trip failed
ScanRaise ==
    /\ sc_pc = "scan"
    /\ sc_pc' = "idle"
    /\ sc_res' = "error"
    /\ UNCHANGED <<state, cursor, stash, asked, fetches, fetched, yielded, after_stop, notScan>>

NextScan ==
    \/ Aiter /\ UNCHANGED pzVars
    \/ AnextCall /\ UNCHANGED pzVars
    \/ \E cur \in Cursors, batch \in Batches : ScanReturn(cur, batch) /\ UNCHANGED pzVars
    \/ ScanRaise /\ UNCHANGED pzVars

SpecScan == Init /\ [][NextScan]_vars

-----------------------------------------------------------------------------
\* One PairedZSCAN and its consumer.  The raw items are what ZSCAN returns:
\* members and scores, the scores as decimal text.  Every fetch succeeds.

ZItems == {"a", "1", "2"}

ZBatches == UNION {[1..n -> ZItems] : n \in 0..MaxBatch}

\* float(x) returns a number
IsNumber(x) == x \in {"1", "2"}

\* float(x), for the raw items that are decimal text
Float(x) == IF x = "1" THEN 1 ELSE 2

\* PairedZSCAN.__anext__ up to the first checkpoint of the first
\* super().__anext__()
PzCall ==
    /\ pz_pc = "idle"
    /\ AnextCall
    /\ pz_pc' = "first"
    /\ pz_res' = "pending"
    /\ UNCHANGED <<score, pairs>>

\* the first super().__anext__() has ended: what it raised leaves __anext__,
\* what it returned is the score and the second super().__anext__() runs up to
\* its first checkpoint
PzScore ==
    /\ pz_pc = "first"
    /\ sc_pc = "idle"
    /\ IF sc_res = "item"
       THEN /\ score' = Last(yielded)
            /\ AnextCall
            /\ pz_pc' = "second"
            /\ UNCHANGED <<pairs, pz_res>>
       ELSE /\ pz_res' = sc_res
            /\ pz_pc' = "idle"
            /\ UNCHANGED <<score, pairs, scanVars, notScan>>

\* a pairing that takes the first raw item for the member and the second
\* for the score
PzMember_Swapped ==
    /\ pz_pc = "second"
    /\ sc_pc = "idle"
    /\ pz_pc' = "idle"
    /\ IF sc_res = "item"
       THEN IF IsNumber(Last(yielded))
            THEN /\ pairs' = Append(pairs, <<score, Float(Last(yielded))>>)
                 /\ pz_res' = "pair"
            ELSE /\ pz_res' = "ValueError"
                 /\ UNCHANGED pairs
       ELSE /\ pz_res' = sc_res
            /\ UNCHANGED pairs
    /\ UNCHANGED <<score, scanVars, notScan>>

\* the second super().__anext__() has ended: what it raised leaves __anext__,
\* what it returned is the member; `return member, float(score)`
PzMember ==
    /\ pz_pc = "second"
    /\ sc_pc = "idle"
    /\ pz_pc' = "idle"
    /\ IF sc_res = "item"
       THEN IF IsNumber(score)
            THEN /\ pairs' = Append(pairs, <<Last(yielded), Float(score)>>)
                 /\ pz_res' = "pair"
            ELSE /\ pz_res' = "ValueError"
                 /\ UNCHANGED pairs
       ELSE /\ pz_res' = sc_res
            /\ UNCHANGED pairs
    /\ UNCHANGED <<score, scanVars, notScan>>

NextPaired ==
    \/ pz_pc = "idle" /\ Aiter /\ UNCHANGED pzVars
    \/ PzCall
    \/ \E cur \in Cursors, batch \in ZBatches : ScanReturn(cur, batch) /\ UNCHANGED pzVars
    \/ PzScore
    \/ PzMember

SpecPaired == Init /\ [][NextPaired]_vars

-----------------------------------------------------------------------------
\* Properties

\* task t holds a connection: acquire returned it and t has not given it back
Holding(t) == pc[t] = "holding"

\* a call of Pool.release by task t
ReleaseInvoked(t) == ReleaseCall(t) \/ ReleaseAgain(t)

\* the aclose call of task t that ran the shutdown returns (normally, or with
\* the exception a send_eof raised)
CloseDone(t) ==
    /\ CloseCall(t) \/ CloseStep(t)
    /\ res'[t][2] \in {"ok", "BrokenResourceError"}

\* the connections the pool has handed out or holds idle
Pooled == (conns \cup {conn[t] : t \in Tasks}) \ {None}

\* C1: in every reachable state of the pool, acquired_count + |idle| <= max_size,
\* and hence acquired_count <= max_size, whatever the interleaving of acquire
\* and release calls.
C1_Bounded ==
    /\ acquired_num + Cardinality(conns) <= MaxNum
    /\ acquired_num <= MaxNum

\* the pool is at its bound with a connection just released and an acquirer
\* still parked waiting for it
C1_Witness ==
    /\ acquired_num + Cardinality(conns) = MaxNum
    /\ conns # {}
    /\ one_available.lot # <<>>

\* C2: when callers release only connections they obtained from the pool
\* (possibly more than once), no connection is held by two acquirers at the
\* same time and no connection is idle while a caller holds it.
C2_Exclusive ==
    /\ \A t, u \in Tasks : (t # u /\ Holding(t) /\ Holding(u)) => conn[t] # conn[u]
    /\ \A t \in Tasks : Holding(t) => conn[t] \notin conns

\* C3: when every command goes through Redis._round_trip, at most one round
\* trip is in flight on any connection at any instant.
C3_OneInFlight == \A c \in Socks : Cardinality(InFlight(c)) <= 1

\* a round trip is in flight while another caller is parked waiting for the connection
C3_Witness ==
    /\ \E c \in Socks : InFlight(c) # {}
    /\ one_available.lot # <<>>

\* C4: under fair scheduling, on a pool that is never closed and whose holders
\* all release, every acquire call eventually returns a connection.
C4_EveryAcquireReturns ==
    \A t \in Tasks : (res[t] = <<"acquire", "pending">>) ~> Holding(t)

\* C5: an acquire invoked on a closed pool fails with ClosedPoolError at once:
\* it returns no connection, does not reach the factory (no socket is opened,
\* nothing is registered) and leaves the pool as it was.
C5_AcquireAfterClose ==
    [][\A t \in Tasks :
          (AcquireCall(t, "pool") /\ closed) =>
              /\ res'[t] = <<"acquire", "ClosedPoolError">>
              /\ pc'[t] = "idle"
              /\ UNCHANGED <<handle, lock, one_available, poolVars, sockVars>>]_vars

C5_Witness ==
    \E t \in Tasks : closed /\ pc[t] = "idle" /\ res[t] = <<"acquire", "ClosedPoolError">>

\* C6: release(conn) on a closed pool fails with ClosedPoolError and leaves the
\* idle set and acquired_count unchanged.
C6_ReleaseOnClosed ==
    [][\A t \in Tasks :
          (ReleaseInvoked(t) /\ closed) =>
              /\ res'[t] = <<"release", "ClosedPoolError">>
              /\ UNCHANGED <<conns, acquired_num>>]_vars

C6_Witness ==
    \E t \in Tasks : closed /\ conn[t] # None /\ res[t] = <<"release", "ClosedPoolError">>

\* C7 (as claimed): a release call for a connection acquired before close() and
\* invoked after the pool has been marked closed completes without raising.
C7_ReleaseAfterCloseCompletes ==
    [][\A t \in Tasks :
          (ReleaseInvoked(t) /\ closed /\ got_open[t]) =>
              res'[t][2] # "ClosedPoolError"]_vars

\* C7 (amended): a release call invoked after the pool has been marked closed
\* raises ClosedPoolError and changes neither the idle set nor acquired_count;
\* a release call that passed its closed check before the pool was marked
\* closed goes on to completion without raising.
C7_InFlightReleaseCompletes ==
    [][\A t \in Tasks :
          /\ (ReleaseInvoked(t) /\ closed) =>
                 /\ res'[t][2] = "ClosedPoolError"
                 /\ UNCHANGED <<conns, acquired_num>>
          /\ (closed /\ pc[t] \in {"rel_lock", "rel_cond"} /\ pc'[t] # pc[t]) =>
                 /\ pc'[t] \in {"rel_cond", "idle"}
                 /\ res'[t] \in {<<"release", "pending">>, <<"release", "ok">>,
                                 <<"release", "noop">>}]_vars

\* a release is past its closed check, has returned the connection to the
\* idle set, and the pool has been marked closed meanwhile
C7_Witness ==
    \E t \in Tasks : closed /\ pc[t] = "rel_cond" /\ conn[t] \in conns

\* C8: a second close() on a closed pool raises nothing, closes no connection
\* and changes no pool state.
C8_CloseIdempotent ==
    [][\A t \in Tasks :
          (CloseCall(t) /\ closed) =>
              /\ res'[t] = <<"aclose", "noop">>
              /\ UNCHANGED <<pc, handle, lock, one_available, poolVars, sockVars>>]_vars

C8_Witness ==
    \E t \in Tasks : closed /\ pc[t] = "idle" /\ res[t] = <<"aclose", "noop">>

C10_AllSocketsClosed ==
    [][\A t \in Tasks :
          (CloseDone(t) /\ \A u \in Tasks : pc[u] \notin {"acq_open", "acq_hello"}) =>
              \A s \in opened' : closes'[s] >= 1]_vars

\* C11: release(conn) with conn already in the idle set is a no-op: the idle
\* set and acquired_count are unchanged, the condition is not touched (no
\* waiter is notified) and the call returns normally.
C11_DoubleReleaseNoop ==
    [][\A t \in Tasks :
          (pc[t] = "rel_lock" /\ lock.owner = t /\ conn[t] \in conns /\ pc'[t] # pc[t]) =>
              /\ UNCHANGED <<conns, acquired_num, one_available>>
              /\ pc'[t] = "idle"
              /\ res'[t] = <<"release", "noop">>]_vars

\* a release of an idle connection has returned
C11_Witness ==
    \E t \in Tasks : pc[t] = "idle" /\ conn[t] \in conns /\ res[t] = <<"release", "noop">>

\* C12: acquire_then_release releases the connection on every exit path of its
\* body (normal return, exception, cancellation): when the scope exits on an
\* open pool, the connection is in the idle set (no longer counted as acquired).
C12_ScopeReleases ==
    [][\A t \in Tasks :
          (/\ pc[t] \in {"rt_send", "rt_recv", "rel_lock", "rel_cond"}
           /\ pc'[t] = "idle"
           /\ ~closed') =>
              conn[t] \in conns']_vars

\* C16: a connection is returned to the idle set only after its round trip
\* has completed with a reply: not after the round trip failed with the
\* transport-closed error, nor after its caller was cancelled.
C16_OnlyCompleteReturned ==
    [][\A t \in Tasks :
          (pc[t] = "rel_lock" /\ conn[t] \notin conns /\ conn[t] \in conns') =>
              res[t] = <<"round_trip", "reply">>]_vars

-----------------------------------------------------------------------------
\* a call of conn.round_trip is made in this step
RoundTripCalled == cpc = "idle" /\ cres'[1] = "round_trip" /\ cres' # cres

\* C13: round_trip on a connection that has not completed the handshake fails
\* with RuntimeError("need to say hello to redis first") and sends nothing, and
\* nothing but HELLO is ever sent before the handshake is complete; on a
\* connection that has said hello the call sends that very command (unless
\* pack_cmd rejects an argument or the write fails on a closed stream) and what it returns is the complete reply
\* to that command.
C13_NotReadyThenReady ==
    [][/\ (RoundTripCalled /\ ~said_hello) =>
              /\ cres'[3] = "RuntimeError"
              /\ sent' = sent
              /\ cpc' = "idle"
       /\ (RoundTripCalled /\ said_hello) =>
              \/ sent' = Append(sent, cres'[2]) /\ cpc' = "round_trip"
              \/ eof /\ cres'[3] = "BrokenResourceError" /\ sent' = sent
              \/ cres'[3] = "unknown type for arg" /\ sent' = sent
       /\ (cpc = "round_trip" /\ cres'[3] = "reply") =>
              /\ cres'[2] = cres[2]
              /\ cres'[2] = Last(sent)
              /\ fed' = need
       /\ ~said_hello' => \A i \in 1..Len(sent') : sent'[i] = "HELLO"]_vars

\* a command that failed before the handshake was sent and answered after it
C13_Witness ==
    /\ said_hello
    /\ sent = <<"HELLO", "GET">>
    /\ cres = <<"round_trip", "GET", "reply">>

\* C14: a hello call on an unauthenticated connection sends HELLO once, at the
\* call, and nothing while it waits for the reply; the connection becomes
\* ready only in the step that receives the complete reply to HELLO; on a ready
\* connection hello sends nothing and no HELLO is sent again; a ready
\* connection stays ready.
C14_ReadyOnce ==
    [][/\ (cpc = "idle" /\ cpc' = "hello") => sent' = Append(sent, "HELLO")
       /\ cpc = "hello" => sent' = sent
       /\ (~said_hello /\ said_hello') =>
              /\ cpc = "hello"
              /\ Last(sent) = "HELLO"
              /\ fed' = need
              /\ cres' = <<"hello", "HELLO", "reply">>
       /\ said_hello =>
              /\ said_hello'
              /\ round_trip' = "_round_trip"
              /\ cpc' # "hello"
              /\ sent' # sent => Last(sent') # "HELLO"]_vars

\* hello was called again on a ready connection and one HELLO has been sent
C14_Witness ==
    /\ said_hello
    /\ cres = <<"hello", "HELLO", "noop">>
    /\ Len(sent) > 1
    /\ \A i \in 2..Len(sent) : sent[i] # "HELLO"

\* C15: a call that is in its receive loop ends only with the complete reply
\* (everything the server sent for the command has been fed to the decoder) or
\* with BrokenResourceError; on a stream the peer has closed the next receive
\* raises BrokenResourceError and feeds nothing; no reply is returned while
\* the decoder holds only a part of it.
C15_ReplyOrBroken ==
    [][/\ (cpc # "idle" /\ cpc' = "idle") =>
              \/ cres'[3] = "reply" /\ fed' = need
              \/ cres'[3] = "BrokenResourceError" /\ eof
       /\ (cpc # "idle" /\ eof /\ connVars' # connVars) =>
              /\ cres'[3] = "BrokenResourceError"
              /\ cpc' = "idle"
              /\ fed' = fed
       /\ (cres'[3] = "reply" /\ cres' # cres) => fed' = need']_vars

\* the stream closed after a part of the reply had arrived: the call failed
C15_Witness ==
    /\ cpc = "idle"
    /\ cres[3] = "BrokenResourceError"
    /\ 0 < fed
    /\ fed < need

-----------------------------------------------------------------------------
\* C17: when an open_transaction scope has been left, the exit raised
\* RuntimeError("unmatched transaction acquiring and releasing") if and only
\* if the number of multi calls made in the scope differs from the number of
\* exec and discard calls made in it, whether or not the calls got a reply;
\* and a scope left normally after multi, set, set, exec exited without error.
C17_UnmatchedIffCountsDiffer ==
    /\ tx_count = Multis - Terms
    /\ tx_pc = "exited" =>
           /\ tx_res = <<"exit", "RuntimeError">> <=> Multis # Terms
           /\ calls = <<"multi", "set", "set", "exec">> =>
                  tx_res \in {<<"exit", "ok">>, <<"exit", "propagated">>}

\* multi, two queued commands, exec, and the scope has been left cleanly
C17_Witness ==
    /\ tx_pc = "exited"
    /\ calls = <<"multi", "set", "set", "exec">>
    /\ tx_res = <<"exit", "ok">>

-----------------------------------------------------------------------------
\* the sequences p and q hold the same items the same number of times
SameItems(p, q) == \A x \in Items : Count(p, {x}) = Count(q, {x})

\* C18: the state started is entered only from init, by a successful
\* __aiter__; __aiter__ succeeds only in state init; a call that fails with
\* RuntimeError("illegal state to start iter") is made in state started,
\* scanned or stopped and leaves _state, _cursor and _stash as they were.
C18_StartOnce ==
    [][/\ (state' = "started" /\ state # "started") =>
              state = "init" /\ sc_res' = "aiter"
       /\ (sc_res' = "aiter" /\ sc_res # "aiter") =>
              state = "init" /\ state' = "started"
       /\ (sc_res' = "illegal state to start iter" /\ sc_res' # sc_res) =>
              /\ state \in {"started", "scanned", "stopped"}
              /\ UNCHANGED <<state, cursor, stash>>
       /\ state # "init" => sc_res' # "aiter" \/ sc_res = "aiter"]_vars

\* __aiter__ was called on a scanner that had stopped, and failed
C18_Witness ==
    /\ state = "stopped"
    /\ sc_res = "illegal state to start iter"
    /\ fetches > 0

\* C19: at every moment the items yielded so far together with the items in
\* the stash are the items of the batches fetched so far, each as many times
\* as it was fetched; once the scanner has stopped the stash is empty, so the
\* items yielded are exactly the items fetched; and on a scanner that has
\* yielded everything after the zero cursor the next __anext__ raises
\* StopAsyncIteration.
C19_YieldsEveryItemOnce ==
    /\ [](/\ SameItems(yielded \o stash, fetched)
          /\ Len(yielded) + Len(stash) = Len(fetched)
          /\ state = "stopped" =>
                 /\ stash = <<>>
                 /\ cursor = 0
                 /\ SameItems(yielded, fetched))
    /\ [][/\ (state = "scanned" /\ stash = <<>> /\ sc_res' # sc_res) =>
                 sc_res' \in {"StopAsyncIteration", "illegal state to start iter"}
          /\ (state = "scanned" /\ state' # state) =>
                 state' = "stopped" /\ sc_res' = "StopAsyncIteration"
          /\ state = "stopped" => state' = "stopped" /\ sc_res' # "item"]_vars

\* batches (3, [a, b]) and (0, [c]) were fetched, a, b and c were yielded once
\* each and the iteration has ended
C19_Witness ==
    /\ state = "stopped"
    /\ sc_res = "StopAsyncIteration"
    /\ fetched = <<"a", "b", "c">>
    /\ fetches = 2
    /\ SameItems(yielded, <<"a", "b", "c">>)
    /\ Len(yielded) = 3

\* the first fetch has returned the zero cursor and an empty batch
FirstFetchEmpty == fetches = 1 /\ cursor = 0 /\ fetched = <<>>

\* C20: when the first fetch has returned the zero cursor with an empty batch
\* the scanner is stopped, the __anext__ that fetched raised
\* StopAsyncIteration, nothing has been yielded, and from then on nothing is
\* fetched or yielded and no call ends with an item or with an error of
\* __anext__.
C20_EmptyScanStops ==
    /\ [](FirstFetchEmpty =>
              /\ state = "stopped"
              /\ sc_pc = "idle"
              /\ yielded = <<>>
              /\ sc_res \in {"StopAsyncIteration", "illegal state to start iter"})
    /\ [][(fetches = 0 /\ FirstFetchEmpty') => sc_res' = "StopAsyncIteration"]_vars
    /\ [][FirstFetchEmpty => FirstFetchEmpty' /\ yielded' = <<>>]_vars

\* the only fetch returned the zero cursor with nothing, the scanner stopped
C20_Witness ==
    /\ FirstFetchEmpty
    /\ state = "stopped"
    /\ sc_res = "StopAsyncIteration"

-----------------------------------------------------------------------------
\* C21: a fetch that returns an empty batch with a non-zero cursor leaves the
\* scanner in its state with the __anext__ still running and a new fetch
\* under way; every fetch under way was asked with the cursor the scanner
\* holds (the one the last fetch returned); and StopAsyncIteration is raised,
\* and the states scanned and stopped are entered, only after a fetch has
\* returned the zero cursor.
C21_EmptyBatchFetchesAgain ==
    /\ [](/\ sc_pc = "scan" => asked = <<cursor>> /\ stash = <<>>
          /\ state \in {"scanned", "stopped"} => cursor = 0 /\ fetches > 0
          /\ sc_res = "StopAsyncIteration" => state = "stopped")
    /\ [][(fetches' = fetches + 1 /\ cursor' # 0 /\ fetched' = fetched) =>
              /\ sc_pc' = "scan"
              /\ state' = state
              /\ sc_res' = sc_res
              /\ asked' = <<cursor'>>]_vars

\* the first fetch returned nothing with cursor 3 and the second fetch, asked
\* with cursor 3, is under way
C21_Witness ==
    /\ sc_pc = "scan"
    /\ fetches = 1
    /\ fetched = <<>>
    /\ cursor = 3
    /\ asked = <<3>>

-----------------------------------------------------------------------------
\* C24 as claimed: a call of __anext__ on a scanner in state stopped fails
\* with the illegal-state error.
C24_NextAfterStopIllegal ==
    [][(state = "stopped" /\ ~after_stop /\ after_stop') =>
           sc_res' = "illegal state to next"]_vars

\* C24 as amended: a call of __anext__ on a scanner in state stopped raises
\* StopAsyncIteration and changes nothing of the scanner; a call of __anext__
\* fails with RuntimeError("illegal state to next") only on a scanner in state
\* init, which it leaves in state init.
C24_NextAfterStopEnds ==
    [][/\ (state = "stopped" /\ ~after_stop /\ after_stop') =>
              /\ sc_res' = "StopAsyncIteration"
              /\ UNCHANGED <<sc_pc, state, cursor, stash, fetches, fetched, yielded>>
       /\ (state = "stopped" /\ sc_res' # sc_res) =>
              sc_res' \in {"StopAsyncIteration", "illegal state to start iter"}
       /\ sc_res' = "illegal state to next" => state = "init" /\ state' = "init"]_vars

\* __anext__ was called on a stopped scanner and raised StopAsyncIteration
C24_Witness ==
    /\ after_stop
    /\ state = "stopped"
    /\ sc_res = "StopAsyncIteration"

-----------------------------------------------------------------------------
\* the raw sequence q is scores and members in turn, each score decimal text
WellFormed(q) ==
    /\ Len(q) % 2 = 0
    /\ \A i \in 1..Len(q) : i % 2 = 1 => IsNumber(q[i])

\* C22: every pair PairedZSCAN returns is made of the two raw items its call
\* took last from the underlying scanner, the first as the score and the
\* second as the member, as (member, float(score)); and whenever no call is
\* running and the raw items taken so far are scores and members in turn, the
\* pairs returned are, in order, each member with the score taken just before
\* it, once each.
C22_PairsInTurn ==
    /\ [][pairs' # pairs =>
              /\ pz_pc = "second"
              /\ Len(yielded) >= 2
              /\ yielded' = yielded
              /\ score = yielded[Len(yielded) - 1]
              /\ pairs' = Append(pairs, <<yielded[Len(yielded)],
                                          Float(yielded[Len(yielded) - 1])>>)]_vars
    /\ []((pz_pc = "idle" /\ WellFormed(yielded)) =>
              /\ 2 * Len(pairs) = Len(yielded)
              /\ \A i \in 1..Len(pairs) :
                     pairs[i] = <<yielded[2 * i], Float(yielded[2 * i - 1])>>)

\* the raw items 1, a, 2, a were taken and the scan ended: (a, 1.0), (a, 2.0)
C22_Witness ==
    /\ pz_pc = "idle"
    /\ pz_res = "StopAsyncIteration"
    /\ yielded = <<"1", "a", "2", "a">>
    /\ pairs = <<<<"a", 1>>, <<"a", 2>>>>

\* C23: when the underlying scanner has stopped after an odd number of raw
\* items, the call of PairedZSCAN.__anext__ that took the last score has
\* failed with an error; it has not ended the iteration with
\* StopAsyncIteration.
C23_OddCountFails ==
    (pz_pc = "idle" /\ state = "stopped" /\ Len(yielded) % 2 = 1) =>
        pz_res # "StopAsyncIteration"

-----------------------------------------------------------------------------
\* A reader of the framing: *<count>CRLF, then count times $<length>CRLF,
\* length bytes, CRLF, and nothing after.

\* the number written in digits at b[i..] and the place after it
RECURSIVE ReadDigits(_, _, _)
ReadDigits(b, i, acc) ==
    IF i <= Len(b) /\ b[i] \in 48..57
    THEN ReadDigits(b, i + 1, acc * 10 + (b[i] - 48))
    ELSE <<acc, i>>

HasCRLF(b, i) == i + 1 <= Len(b) /\ b[i] = 13 /\ b[i + 1] = 10

Malformed == [ok |-> FALSE, elems |-> <<>>]

\* the payloads of the n bulk elements at b[i..]
RECURSIVE ReadBulks(_, _, _)
ReadBulks(b, i, n) ==
    IF n = 0 THEN [ok |-> i = Len(b) + 1, elems |-> <<>>]
    ELSE IF ~(i <= Len(b) /\ b[i] = 36) THEN Malformed
    ELSE LET r == ReadDigits(b, i + 1, 0)
             from == r[2] + 2
             to == r[2] + 1 + r[1]
         IN  IF r[2] = i + 1 \/ ~HasCRLF(b, r[2]) \/ ~HasCRLF(b, to + 1)
             THEN Malformed
             ELSE LET rest == ReadBulks(b, to + 3, n - 1)
                  IN  [ok |-> rest.ok, elems |-> <<SubSeq(b, from, to)>> \o rest.elems]

Decode(b) ==
    IF b = <<>> \/ b[1] # 42 THEN Malformed
    ELSE LET r == ReadDigits(b, 2, 0)
         IN  IF r[2] = 2 \/ ~HasCRLF(b, r[2]) THEN Malformed
             ELSE ReadBulks(b, r[2] + 2, r[1])

\* the code points the UTF-8 bytes b stand for
RECURSIVE Utf8Decode(_)
Utf8Decode(b) ==
    IF b = <<>> THEN <<>>
    ELSE IF b[1] < 128 THEN <<b[1]>> \o Utf8Decode(Tail(b))
    ELSE <<(b[1] - 192) * 64 + (b[2] - 128)>> \o Utf8Decode(Tail(Tail(b)))

\* the payload p is the argument arg: the decimal text of the number, the
\* UTF-8 bytes of the text, the bytes themselves
Renders(p, arg) ==
    IF arg[1] = "int"
    THEN LET neg == p # <<>> /\ p[1] = 45
             r == ReadDigits(p, IF neg THEN 2 ELSE 1, 0)
         IN  /\ r[2] = Len(p) + 1
             /\ Len(p) > (IF neg THEN 1 ELSE 0)
             /\ arg[2] = (IF neg THEN -r[1] ELSE r[1])
    ELSE IF arg[1] = "float"
    THEN LET r == ReadDigits(p, 1, 0)
         IN  /\ r[2] > 1
             /\ Len(p) = r[2] + 1
             /\ p[r[2]] = 46
             /\ p[r[2] + 1] \in {48, 53}
             /\ arg[2] = 2 * r[1] + (IF p[r[2] + 1] = 53 THEN 1 ELSE 0)
    ELSE IF arg[1] = "str" THEN Utf8Decode(p) = arg[2]
    ELSE p = arg[2]

\* C25: for every opcode and every list of int, float, str and bytes
\* arguments, what pack_cmd returns reads as an array of len(args) + 1 bulk
\* elements with nothing after it, every declared length being the length of
\* its payload; the first payload is the opcode and the others are, in order,
\* the arguments: a number as its decimal text, a text as its UTF-8 bytes,
\* bytes unchanged.
C25_PackFraming ==
    (pk_done /\ \A i \in 1..Len(pk_args) : ~Unknown(pk_args[i])) =>
        /\ pk_out.ok
        /\ LET d == Decode(pk_out.bytes)
           IN  /\ d.ok
               /\ Len(d.elems) = Len(pk_args) + 1
               /\ d.elems[1] = Opcode(pk_cmd)
               /\ \A i \in 1..Len(pk_args) : Renders(d.elems[i + 1], pk_args[i])

\* a text with a two-byte character and bytes that hold CRLF were packed
C25_Witness ==
    /\ pk_done
    /\ pk_out.ok
    /\ pk_args = <<<<"str", <<233, 97>>>>, <<"bytes", <<13, 10>>>>>>

\* C26: a call of round_trip on a ready connection with an argument that is
\* not an int, a float, a str or bytes fails with RuntimeError(unknown type for
\* arg), and no other call does; the failed call writes nothing and leaves the
\* connection, its decoder and its readiness as they were.
C26_UnknownArgFailsCallOnly ==
    [][/\ (RoundTripCalled /\ said_hello) =>
              (cres'[3] = "unknown type for arg"
                   <=> \E i \in 1..Len(cargs') : Unknown(cargs'[i]))
       /\ (cargs' # cargs /\ said_hello /\ \E i \in 1..Len(cargs') : Unknown(cargs'[i])) =>
              cres'[3] = "unknown type for arg"
       /\ (cres'[3] = "unknown type for arg" /\ <<cres', cargs'>> # <<cres, cargs>>) =>
              /\ cpc = "idle"
              /\ UNCHANGED <<cpc, sent, said_hello, round_trip, need, fed, eof>>]_vars

\* a call with an argument of another type has failed on a connection that has
\* said hello and has served a round trip
C26_Witness ==
    /\ said_hello
    /\ cres[3] = "unknown type for arg"
    /\ cargs = <<<<"str", <<97>>>>, <<"NoneType", 0>>>>
    /\ Len(sent) = 2
    /\ cpc = "idle"

-----------------------------------------------------------------------------
\* C27: on a pool that has not been closed no acquire has ended with the
\* KeyError of a pop from the empty idle set.
C27_NoErrorAfterWakeup ==
    \A t \in Tasks : res[t] = <<"acquire", "KeyError">> => closed

\* C28: every connection a caller has from acquire was returned to it while
\* the pool was not marked closed.
C28_NoConnectionAfterClose ==
    \A t \in Tasks : (pc[t] = "holding" /\ res[t] = <<"acquire", "conn">>) => got_open[t]

\* a connection the pool has created and that is not in the idle set
Acquired == {exitstack[i] : i \in 1..Len(exitstack)} \ conns

\* task t calls aclose in this step
CloseCalled(t) == pc[t] = "idle" /\ res'[t][1] = "aclose" /\ res'[t] # res[t]

\* C29: a call of aclose on a pool that is not closed and has a connection
\* that was created and is not in the idle set fails with AssertionError and
\* leaves the closed flag unset, every socket as it was, and the idle set, the
\* exit stack and _acquired_num unchanged.
C29_CloseWhileAcquiredFails ==
    [][\A t \in Tasks :
           (CloseCalled(t) /\ ~closed /\ Acquired # {}) =>
               /\ res'[t] = <<"aclose", "AssertionError">>
               /\ ~closed'
               /\ UNCHANGED <<conns, acquired_num, exitstack, closes, opened>>]_vars

\* aclose has failed on its assertion while a caller holds a connection
C29_Witness ==
    /\ ~closed
    /\ \E t \in Tasks : res[t] = <<"aclose", "AssertionError">>
    /\ \E t \in Tasks : Holding(t) /\ conn[t] \in Acquired

-----------------------------------------------------------------------------
\* the place of a state in `init -> started -> scanned -> stopped`
Rank(st) ==
    CASE st = "init" -> 0
      [] st = "started" -> 1
      [] st = "scanned" -> 2
      [] st = "stopped" -> 3

C39_NoFetchAfterZeroCursor ==
    /\ [](state = "scanned" => cursor = 0)
    /\ [][(fetches > 0 /\ cursor = 0) =>
              /\ sc_pc # "scan" /\ sc_pc' # "scan"
              /\ UNCHANGED <<fetches, fetched, cursor, asked>>
              /\ yielded' # yielded =>
                     /\ stash # <<>>
                     /\ yielded' = Append(yielded, Last(stash))
                     /\ stash' = SubSeq(stash, 1, Len(stash) - 1)]_vars

\* the zero cursor came with two items and the second was served from the
\* stash, with no further fetch
C39_Witness ==
    /\ state = "scanned"
    /\ fetches = 1
    /\ Len(fetched) = 2
    /\ Len(yielded) = 2
    /\ stash = <<>>

\* __anext__ is called in this step
AnextCalled ==
    /\ sc_pc = "idle"
    /\ sc_res' \in {"StopAsyncIteration", "illegal state to next", "item", "pending"}

\* C40: a fetch that fails ends the call with the error and leaves the state,
\* the cursor and the stash as they were; the next call of __anext__ after the
\* failure issues a fetch, and it passes the cursor the failed fetch passed.
C40_FailedFetchKeepsState ==
    [][/\ (sc_pc = "scan" /\ sc_res' = "error") =>
              /\ sc_pc' = "idle"
              /\ UNCHANGED <<state, cursor, stash, yielded>>
              /\ asked = <<cursor>>
       /\ (sc_res = "error" /\ AnextCalled) =>
              /\ sc_pc' = "scan"
              /\ sc_res' = "pending"
              /\ asked' = asked
              /\ asked' = <<cursor>>
              /\ UNCHANGED <<state, cursor, stash>>]_vars

\* the second fetch of a scan, made with a non-zero cursor, has failed
C40_Witness ==
    /\ sc_res = "error"
    /\ sc_pc = "idle"
    /\ fetches = 1
    /\ cursor = 3
    /\ asked = <<3>>

-----------------------------------------------------------------------------
\* C31: under fair scheduling, with callers that may be cancelled while they
\* wait in acquire, no caller stays suspended in the wait for ever while the
\* idle set holds a connection.
C31_NoLostWakeup ==
    \A t \in Callers : []<>(~(Waiting(t) /\ conns # {}))

-----------------------------------------------------------------------------
\* the places of acquire and release inside an `async with self._lock` block
\* or at its entry
LockedPlaces == {"acq_lock", "acq_open", "acq_hello", "acq_relock", "rel_lock", "rel_cond"}

\* C36: a task that is past the entry of an `async with self._lock` block
\* (in the factory, or at the notify of release) owns the pool lock, the owner
\* of the pool lock is inside such a block, and every step that changes the
\* idle set or _acquired_num is a step of the task that owns the pool lock.
C36_MutationsUnderLock ==
    /\ [](\A t \in Tasks : pc[t] \in {"acq_open", "acq_hello", "rel_cond"} => lock.owner = t)
    /\ [](\A t \in Tasks : lock.owner = t => pc[t] \in LockedPlaces)
    /\ [][(conns' # conns \/ acquired_num' # acquired_num) =>
              \E t \in Tasks : /\ lock.owner = t
                               /\ pc[t] \in LockedPlaces
                               /\ pc'[t] # pc[t]
                               /\ \A u \in Tasks \ {t} : pc'[u] = pc[u]]_vars

\* a task is in the factory, holding the pool lock, while another task waits
\* at the entry of acquire for the lock
C36_Witness ==
    \E t, u \in Tasks :
        /\ pc[t] = "acq_hello"
        /\ lock.owner = t
        /\ pc[u] = "acq_lock"
        /\ lock.waiters = <<u>>

\* C37: while the pool is open, the number of connections it has created and
\* entered into the exit stack equals _acquired_num + |idle|, _acquired_num
\* is not negative, and at most max_num connections have been created.
C37_CreatedIsAcquiredPlusIdle ==
    /\ ~closed => Len(exitstack) = acquired_num + Cardinality(conns)
    /\ ~closed => Len(exitstack) <= MaxNum
    /\ acquired_num >= 0

\* after a repeated release the connection a caller holds is idle and
\* _acquired_num is zero
C37_Witness ==
    /\ ~closed
    /\ acquired_num = 0
    /\ Len(exitstack) = MaxNum
    /\ \E t \in Tasks : Holding(t) /\ conn[t] \in conns

\* the steps of acquire and release that a task takes when it is handed a lock
LockStep(t) ==
    \/ AcqFast(t, "pool")
    \/ FactoryOpen(t, "pool")
    \/ FactoryHello(t, "pool")
    \/ AcqWait(t)
    \/ AcqWoken(t)
    \/ AcqSlow(t, "pool")
    \/ RelLocked(t, "pool")
    \/ RelNotify(t, "pool")

\* C38: a task at the notify of release owns the pool lock; a task that owns
\* the condition's lock, or is queued for it from acquire, neither owns nor is
\* queued for the pool lock; and whenever one of the two locks is owned, the
\* next step of one of the owners is enabled.
C38_NoLockDeadlock ==
    /\ \A t \in Tasks : pc[t] = "rel_cond" => lock.owner = t
    /\ \A t \in Tasks :
           (one_available.owner = t /\ pc[t] # "rel_cond") =>
               /\ lock.owner # t
               /\ \A i \in 1..Len(lock.waiters) : lock.waiters[i] # t
    /\ (lock.owner # None \/ one_available.owner # None) =>
           \E t \in Tasks : /\ lock.owner = t \/ one_available.owner = t
                            /\ ENABLED LockStep(t)

\* a release holds the pool lock and waits for the condition's lock, which an
\* acquirer owns that is about to park
C38_Witness ==
    \E t, u \in Tasks :
        /\ pc[t] = "rel_cond"
        /\ lock.owner = t
        /\ one_available.owner = u
        /\ pc[u] = "acq_cond"
        /\ one_available.waiters = <<t>>

-----------------------------------------------------------------------------
\* C32: the command of a round trip is written to the connection only when
\* the reply to the command before it has been read to its end, and the reply
\* a round trip returns is the reply to the command that round trip sent.
C32_SequentialOwnReply ==
    [][/\ (cpc = "idle" /\ cpc' = "round_trip") => fed = need
       /\ (cpc = "round_trip" /\ cres'[3] = "reply") => ~stale']_vars

-----------------------------------------------------------------------------
\* C35 as claimed: a close of a connection closes its socket once and does
\* not fail, whatever the half-close did.
C35_CloseSucceeds ==
    [][\A c \in Socks :
           closes'[c] # closes[c] =>
               /\ closes'[c] = closes[c] + 1
               /\ close_exc' = close_exc]_vars

\* C34: while the scope is open the Transaction keeps the connection the
\* scope acquired, that connection is not idle and no other caller has it;
\* every call on the Transaction is made inside the scope on that connection;
\* and when the scope has been left on an open pool the connection is idle.
C34_ScopeHoldsOneConnection ==
    /\ [](tx_pc = "in" =>
              /\ tx_conn = conn[ScopeUser]
              /\ tx_conn \notin conns
              /\ \A u \in Tasks \ {ScopeUser} :
                     pc[u] \in {"rt_send", "rt_recv", "rel_lock", "rel_cond"} =>
                         conn[u] # tx_conn)
    /\ [][calls' # calls =>
              /\ pc[ScopeUser] = "scope"
              /\ tx_conn' = tx_conn
              /\ tx_conn = conn[ScopeUser]]_vars
    /\ [][(/\ pc[ScopeUser] \in {"scope", "rel_lock", "rel_cond"}
           /\ pc'[ScopeUser] = "idle"
           /\ ~closed') =>
              conn[ScopeUser] \in conns']_vars

====
